---------------------------- MODULE Spec2Model ----------------------------
(***************************************************************************)
(* Model of the chat page of the ocean-telemetry dashboard: the incremental *)
(* event-stream decoder (services/api: streamChatResponse, fetchSSEData)    *)
(* and the session reconciler (pages/Chat: the Chat component's state and   *)
(* handlers), together with the remote store and the requests in flight.    *)
(*                                                                          *)
(* Text is modelled as a sequence of one-character strings, so that          *)
(* split, trim, startsWith, slice and JSON.parse are computed as the code   *)
(* computes them.                                                            *)
(***************************************************************************)
EXTENDS Integers, Sequences, FiniteSets, TLC

\* null where the code holds a session id (the ids of the store start at 1).
NULL == 0
\* An absent text (null or undefined where the code holds a string).
NONE == <<"null_value">>

(***************************************************************************)
(* Bounds of the model.                                                     *)
(***************************************************************************)
MaxPieces == 3
MaxOps == 2
\* How many event blocks a body of SpecEvents holds at most.
MaxEvents == 2
\* The last reading of the clock in SpecIds.
MaxClock == 8

(***************************************************************************)
(* String primitives of JavaScript, on sequences of characters.            *)
(***************************************************************************)
NL == "\n"
SP == " "
QT == "\""

IsWhite(c) == c \in {SP, NL, "\t", "\r"}

RECURSIVE TrimStart(_)
TrimStart(s) ==
  IF s = <<>> THEN <<>>
  ELSE IF IsWhite(Head(s)) THEN TrimStart(Tail(s)) ELSE s

RECURSIVE TrimEnd(_)
TrimEnd(s) ==
  IF s = <<>> THEN <<>>
  ELSE IF IsWhite(s[Len(s)]) THEN TrimEnd(SubSeq(s, 1, Len(s) - 1)) ELSE s

\* String.prototype.trim
Trim(s) == TrimEnd(TrimStart(s))

\* String.prototype.startsWith
StartsWith(s, p) == Len(s) >= Len(p) /\ SubSeq(s, 1, Len(p)) = p

\* String.prototype.slice(n)
Slice(s, n) == SubSeq(s, n + 1, Len(s))

\* The positions at which p occurs in s.
Occurrences(s, p) ==
  {i \in 1..(Len(s) - Len(p) + 1) : SubSeq(s, i, i + Len(p) - 1) = p}

\* String.prototype.indexOf, counted from 1 (0: not found)
IndexOf(s, p) ==
  LET hits == Occurrences(s, p) IN
  IF hits = {} THEN 0 ELSE CHOOSE i \in hits : \A j \in hits : i <= j

\* String.prototype.includes
Includes(s, p) == Occurrences(s, p) # {}

\* String.prototype.split(sep) for a non-empty separator: leftmost matches,
\* never overlapping; a text without the separator is one part.
RECURSIVE Split(_, _)
Split(s, sep) ==
  LET i == IndexOf(s, sep) IN
  IF i = 0 THEN <<s>>
  ELSE <<SubSeq(s, 1, i - 1)>> \o Split(SubSeq(s, i + Len(sep), Len(s)), sep)

\* Array.prototype.join
RECURSIVE Join(_, _)
Join(parts, sep) ==
  IF parts = <<>> THEN <<>>
  ELSE IF Len(parts) = 1 THEN parts[1]
  ELSE parts[1] \o sep \o Join(Tail(parts), sep)

\* Concatenation of a sequence of texts.
RECURSIVE Flatten(_)
Flatten(ss) == IF ss = <<>> THEN <<>> ELSE Head(ss) \o Flatten(Tail(ss))


(***************************************************************************)
(* JavaScript values carried by events, and JSON.  A value is a record      *)
(* [t, v]: t its type and v its text (the characters of a string, the       *)
(* digits of a number, the JSON text of the data member of an object).      *)
(***************************************************************************)
JStr(s) == [t |-> "string", v |-> s]
JUndefined == [t |-> "undefined", v |-> <<>>]
JNull == [t |-> "null", v |-> <<>>]
JEmptyArray == [t |-> "array", v |-> <<>>]
JFail == [t |-> "SyntaxError", v |-> <<>>]

Digits == {"0", "1", "2", "3", "4", "5", "6", "7", "8", "9"}

IsNumberText(s) ==
  /\ s # <<>>
  /\ \A i \in 1..Len(s) : s[i] \in Digits
  /\ (Len(s) > 1 => s[1] # "0")

IsStringBody(s) == \A i \in 1..Len(s) : s[i] \notin {QT, "\\", NL, "\t", "\r"}

\* JSON values without members: a string literal without escapes, an
\* unsigned integer, null, the empty array and the empty object.
ParseScalar(w) ==
  IF Len(w) >= 2 /\ w[1] = QT /\ w[Len(w)] = QT /\ IsStringBody(SubSeq(w, 2, Len(w) - 1))
    THEN JStr(SubSeq(w, 2, Len(w) - 1))
  ELSE IF IsNumberText(w) THEN [t |-> "number", v |-> w]
  ELSE IF w = <<"n", "u", "l", "l">> THEN JNull
  ELSE IF w = <<"[", "]">> THEN JEmptyArray
  ELSE IF w = <<"{", "}">> THEN [t |-> "object", v |-> <<>>]
  ELSE JFail

DataKey == <<"{", QT, "d", "a", "t", "a", QT, ":">>

\* JSON.parse on the JSON texts the model's streams can hold: the scalars
\* above and the object {"data":<scalar>}; every other text is a syntax
\* error.  Leading and trailing white space is allowed by JSON.
JSONParse(s) ==
  LET w == Trim(s) IN
  IF StartsWith(w, DataKey) /\ Len(w) > Len(DataKey) /\ w[Len(w)] = "}"
  THEN LET inner == ParseScalar(Trim(SubSeq(w, Len(DataKey) + 1, Len(w) - 1)))
       IN IF inner.t = "SyntaxError" THEN JFail
          ELSE [t |-> "object", v |-> Trim(SubSeq(w, Len(DataKey) + 1, Len(w) - 1))]
  ELSE ParseScalar(w)

\* The member `data` of a parsed value (metadata.data): reading a member of
\* null throws, of any other value without the member gives undefined.
DataMember(val) ==
  IF val.t = "null" THEN [t |-> "TypeError", v |-> <<>>]
  ELSE IF val.t = "object" /\ val.v # <<>> THEN ParseScalar(val.v)
  ELSE JUndefined

\* String(value), as the + operator applies it to a non-string operand.
ToText(val) ==
  CASE val.t = "string" -> val.v
    [] val.t = "number" -> val.v
    [] val.t = "null" -> <<"n", "u", "l", "l">>
    [] val.t = "undefined" -> <<"u", "n", "d", "e", "f", "i", "n", "e", "d">>
    [] val.t = "array" -> <<>>
    [] OTHER -> <<"[", "o", "b", "j", "e", "c", "t", " ", "O", "b", "j", "e", "c", "t", "]">>

\* JSON.stringify of a string: quoted, with the escapes of ", \ and newline.
RECURSIVE Escape(_)
Escape(s) ==
  IF s = <<>> THEN <<>>
  ELSE (CASE Head(s) = QT -> <<"\\", QT>>
          [] Head(s) = "\\" -> <<"\\", "\\">>
          [] Head(s) = NL -> <<"\\", "n">>
          [] Head(s) = "\t" -> <<"\\", "t">>
          [] Head(s) = "\r" -> <<"\\", "r">>
          [] OTHER -> <<Head(s)>>) \o Escape(Tail(s))

Stringify(s) == <<QT>> \o Escape(s) \o <<QT>>


(***************************************************************************)
(* Stream decoder, chat mode: streamChatResponse.                           *)
(***************************************************************************)
NLNL == <<NL, NL>>
EventPrefix == <<"e", "v", "e", "n", "t", ":", " ">>
DataPrefix == <<"d", "a", "t", "a", ":", " ">>
TChunk == <<"c", "h", "u", "n", "k">>
TVisualization == <<"v", "i", "s", "u", "a", "l", "i", "z", "a", "t", "i", "o", "n">>
TError == <<"e", "r", "r", "o", "r">>
TMetadata == <<"m", "e", "t", "a", "d", "a", "t", "a">>

\* data += (data ? '\n' : '') + line.slice(6)
AppendData(data, line) ==
  data \o (IF data # <<>> THEN <<NL>> ELSE <<>>) \o Slice(line, 6)

\* The loop over the lines of one event: the last `event: ` line gives the
\* type, the `data: ` lines are collected.
RECURSIVE ParseFields(_, _, _)
ParseFields(lines, eventType, data) ==
  IF lines = <<>> THEN [eventType |-> eventType, data |-> data]
  ELSE LET line == Head(lines) IN
       IF StartsWith(line, EventPrefix)
       THEN ParseFields(Tail(lines), Trim(Slice(line, 7)), data)
       ELSE IF StartsWith(line, DataPrefix)
       THEN ParseFields(Tail(lines), eventType, AppendData(data, line))
       ELSE ParseFields(Tail(lines), eventType, data)

Call(payload, type) == [payload |-> payload, type |-> type]

ErrorText(data) ==
  <<NL, "[", "E", "r", "r", "o", "r", ":", " ">> \o Stringify(data) \o <<"]">>

\* The callbacks one event makes (none or one), by its type.
Dispatch(ev) ==
  IF ev.eventType = TChunk /\ ev.data # <<>>
  THEN LET text == JSONParse(ev.data) IN
       IF text.t = "SyntaxError" THEN <<Call(JStr(ev.data), "text")>>
       ELSE <<Call(text, "text")>>
  ELSE IF ev.eventType = TVisualization /\ ev.data # <<>>
  THEN LET viz == JSONParse(ev.data) IN
       IF viz.t = "SyntaxError" THEN <<>>
       ELSE <<Call(viz, "visualization")>>
  ELSE IF ev.eventType = TError
  THEN <<Call(JStr(ErrorText(ev.data)), "text")>>
  ELSE <<>>

\* if (!part.trim()) continue: keep-alive blocks are skipped.
IsKeepAlive(part) == Trim(part) = <<>>

\* The type and data the field loop assembles for one part of the buffer.
ParseEvent(part) ==
  LET ev == ParseFields(Split(part, <<NL>>), NONE, <<>>) IN
  [part |-> part, eventType |-> ev.eventType, data |-> ev.data]

\* A variant of the loop over the parts that ends at the first event whose
\* data is not JSON.
RECURSIVE ProcessEvents_StopAtBad(_)
ProcessEvents_StopAtBad(evs) ==
  IF evs = <<>> THEN <<>>
  ELSE IF Head(evs).data # <<>> /\ JSONParse(Head(evs).data).t = "SyntaxError" THEN <<>>
  ELSE Dispatch(Head(evs)) \o ProcessEvents_StopAtBad(Tail(evs))

RECURSIVE ProcessEvents(_)
ProcessEvents(evs) ==
  IF evs = <<>> THEN <<>>
  ELSE Dispatch(Head(evs)) \o ProcessEvents(Tail(evs))

Front(q) == SubSeq(q, 1, Len(q) - 1)
Last(q) == q[Len(q)]

\* One pass of the read loop with a chunk of text: the events assembled,
\* the callbacks made, in order, and the buffer left (parts.pop(): the
\* text after the last blank line stays buffered).
\* A variant of the read loop that forgets the incomplete tail of a read.
ChatRead_DropTail(buf, value) ==
  LET parts == Split(buf \o value, NLNL)
      live == SelectSeq(Front(parts), LAMBDA part : ~IsKeepAlive(part))
      evs == [i \in 1..Len(live) |-> ParseEvent(live[i])]
  IN [events |-> evs, calls |-> ProcessEvents(evs), buffer |-> <<>>]

\* A variant of the read loop in which a keep-alive block ends the loop
\* over the parts of the read (break in place of continue).
ChatRead_BreakOnKeepAlive(buf, value) ==
  LET parts == Split(buf \o value, NLNL)
      blank == {i \in 1..(Len(parts) - 1) : IsKeepAlive(parts[i])}
      upto == IF blank = {} THEN Len(parts) - 1
              ELSE (CHOOSE i \in blank : \A j \in blank : i <= j) - 1
      evs == [i \in 1..upto |-> ParseEvent(parts[i])]
  IN [events |-> evs, calls |-> ProcessEvents(evs), buffer |-> Last(parts)]

ChatRead(buf, value) ==
  LET parts == Split(buf \o value, NLNL)
      live == SelectSeq(Front(parts), LAMBDA part : ~IsKeepAlive(part))
      evs == [i \in 1..Len(live) |-> ParseEvent(live[i])]
  IN [events |-> evs, calls |-> ProcessEvents(evs), buffer |-> Last(parts)]

(***************************************************************************)
(* Stream decoder, one-shot mode: fetchSSEData.                             *)
(***************************************************************************)
MetadataMark == EventPrefix \o TMetadata

\* eventStr.split('\n').find(l => l.startsWith('data: '))
RECURSIVE FindDataLine(_)
FindDataLine(lines) ==
  IF lines = <<>> THEN NONE
  ELSE IF StartsWith(Head(lines), DataPrefix) THEN Head(lines)
  ELSE FindDataLine(Tail(lines))

\* What one event gives: [found, result]; found is FALSE when the loop goes
\* on to the next event (no metadata mark, no data line, or a parse or
\* member access that throws and is caught).
OneShotEvent(eventStr) ==
  IF ~Includes(eventStr, MetadataMark) THEN [found |-> FALSE, result |-> JUndefined]
  ELSE LET dataLine == FindDataLine(Split(eventStr, <<NL>>)) IN
       IF dataLine = NONE THEN [found |-> FALSE, result |-> JUndefined]
       ELSE LET metadata == JSONParse(Slice(dataLine, 6)) IN
            IF metadata.t = "SyntaxError" \/ DataMember(metadata).t = "TypeError"
            THEN [found |-> FALSE, result |-> JUndefined]
            ELSE [found |-> TRUE, result |-> DataMember(metadata)]

RECURSIVE OneShotEvents(_)
OneShotEvents(events) ==
  IF events = <<>> THEN [found |-> FALSE, result |-> JUndefined]
  ELSE LET r == OneShotEvent(Head(events)) IN
       IF r.found THEN r ELSE OneShotEvents(Tail(events))

\* A variant of the read loop that never returns from within.
OneShotRead_NoReturn(buf, value) ==
  [out |-> [found |-> FALSE, result |-> JUndefined],
   buffer |-> Last(Split(buf \o value, NLNL))]

\* One pass of the read loop: found with the result returned, or the
\* buffer left for the next read.
OneShotRead(buf, value) ==
  LET events == Split(buf \o value, NLNL) IN
  [out |-> OneShotEvents(Front(events)), buffer |-> Last(events)]

\* return resultData || []  (resultData is still null here)
OneShotDefault == JEmptyArray

\* The JSON bodies of the two requests, member by member ("absent" for a
\* member the body does not have).
\* A variant of the one-shot request that leaves save_to_history out.
OneShotBody_Default ==
  [query |-> "given", save_to_history |-> "absent", session_id |-> "absent"]

\* JSON.stringify({ query, save_to_history: false })
OneShotBody ==
  [query |-> "given", save_to_history |-> "false", session_id |-> "absent"]

\* JSON.stringify({ query: query, session_id: sessionId })
ChatBody ==
  [query |-> "given", save_to_history |-> "absent", session_id |-> "given"]


(***************************************************************************)
(* The texts a server can send: up to MaxPieces pieces, each a line or the  *)
(* end of an event, so that whole events, events with several data lines,   *)
(* keep-alive blocks and unterminated events all occur.  A chat body is     *)
(* made of chunk events with JSON, raw and empty data lines, a one-shot     *)
(* body of metadata events with JSON and raw data lines, and of events      *)
(* without a declared type whose data is the JSON string "event: metadata". *)
(***************************************************************************)
EventLine(type) == EventPrefix \o type \o <<NL>>
DataLine(text) == DataPrefix \o text \o <<NL>>

JsonA == <<QT, "A", QT>>
RawB == <<"B">>
JsonData == DataKey \o <<"[", "]", "}">>
JsonMark == <<QT>> \o EventPrefix \o TMetadata \o <<QT>>

Pieces(m) ==
  IF m = "chat"
  THEN {EventLine(TChunk), DataLine(JsonA) \o <<NL>>, DataLine(RawB), DataLine(<<>>), <<NL>>}
  ELSE {EventLine(TMetadata), DataLine(JsonData) \o <<NL>>, DataLine(RawB), <<NL>>,
        DataLine(JsonMark) \o <<NL>>}

RECURSIVE PieceSeqs(_, _)
PieceSeqs(m, n) ==
  IF n = 0 THEN {<<>>}
  ELSE PieceSeqs(m, n - 1) \cup
       {q \o <<p>> : q \in {r \in PieceSeqs(m, n - 1) : Len(r) = n - 1}, p \in Pieces(m)}

WireTexts(m) == {Flatten(q) : q \in PieceSeqs(m, MaxPieces)}

VARIABLES
  wire,        \* decoder run: the whole text of the response body
  delivered,   \* decoder run: how many characters the reads have returned
  mode,        \* decoder run: "chat" (streamChatResponse) or "oneshot" (fetchSSEData)
  buffer,      \* decoder run: the local variable buffer
  decoded,     \* decoder run: the events assembled so far (part, eventType, data)
  calls,       \* decoder run: the onChunk invocations made so far, in order
  phase,       \* decoder run: "reading", "ended" (done seen), "returned" (metadata
               \* found), "refused" (response not ok), "failed" (a read threw)
  resultData,  \* decoder run: the value fetchSSEData returned
  cancelled,   \* decoder run: reader.cancel() has run
  request      \* decoder run: the body of the POST that opened the stream

decoderVars ==
  <<wire, delivered, mode, buffer, decoded, calls, phase, resultData, cancelled, request>>



(***************************************************************************)
(* Session reconciler: the state of the Chat component, the remote store    *)
(* and the requests in flight.                                              *)
(***************************************************************************)
VARIABLES
  sessions,           \* useState: the local session list, newest first
  currentSessionId,   \* useState: the active session id, or NULL
  messages,           \* useState: the local message list
  inputValue,         \* useState: the text of the compose area
  isLoading,          \* useState: a send is in flight
  editingSessionId,   \* useState: the session in rename edit mode, or NULL
  editTitle,          \* useState: the text of the rename input
  deletingSessionId,  \* useState: the pending-delete marker, or NULL
  now,                \* the last reading of the clock (Date.now())
  ops,                \* how many user gestures have been made
  remoteSessions,     \* remote store: table chat_sessions, oldest first
  remoteMessages,     \* remote store: table messages, by session id
  nextId,             \* remote store: the id the next inserted session gets
  fetchS,             \* fetchSessions calls in flight
  fetchM,             \* fetchMessages calls in flight
  renames,            \* renameSession calls in flight (saveRename suspended)
  deletes,            \* deleteSession calls in flight (executeDelete suspended)
  send,               \* the handleSendMessage call: position and local variables
  alerts,             \* how many times alert("Failed to delete chat.") has run
  last                \* the step taken last: its name, the session it is about

chatVars ==
  <<sessions, currentSessionId, messages, inputValue, isLoading,
    editingSessionId, editTitle, deletingSessionId, now, ops,
    remoteSessions, remoteMessages, nextId, fetchS, fetchM, renames, deletes, send,
    alerts, last>>

vars == <<chatVars, alerts, decoderVars>>

localVars ==
  <<sessions, currentSessionId, messages, inputValue, isLoading,
    editingSessionId, editTitle, deletingSessionId>>
remoteVars == <<remoteSessions, remoteMessages, nextId>>
flightVars == <<fetchS, fetchM, renames, deletes>>

SessionIds == 1..(MaxOps + 1)

TitleA == <<"A">>
TitleNewChat == <<"N", "e", "w", " ", "C", "h", "a", "t">>
\* What the user can type into the rename input.
EditInputs == {<<SP>>, <<"A", SP>>, <<"B">>}
\* What the user can type into the compose area.
ComposeInputs == {<<>>, <<SP>>, <<"h", "i">>}

Session(id, title) == [id |-> id, title |-> title]
Ids(list) == {list[i].id : i \in 1..Len(list)}
\* sessions.find(s => s.id === id)?.title, NONE when there is no such session
TitleOf(list, id) ==
  IF id \in Ids(list) THEN list[CHOOSE i \in 1..Len(list) : list[i].id = id].title ELSE NONE

RECURSIVE Reverse(_)
Reverse(q) == IF q = <<>> THEN <<>> ELSE Reverse(Tail(q)) \o <<Head(q)>>

TmpId(t) == [k |-> "tmp", n |-> t]
ErrorId(t) == [k |-> "error", n |-> t]
DbId(sid, i) == [k |-> "db", n |-> sid * 10 + i]

\* A reading of Date.now() in a later turn of the event loop than the
\* reading t, after a user's gesture or a remote call: more than one
\* millisecond later, so that it differs from every id made from t.
Later(t) == t + 2

\* A message object; `at` is the time it was made (created_at, which the
\* synthetic failure message does not carry as a field).
Message(id, role, content, sid, at) ==
  [id |-> id, role |-> role, content |-> content, meta |-> JUndefined, sid |-> sid,
   at |-> at]

\* The rows the store holds before the page is opened: one session with
\* one stored exchange.
StoredQuestion == <<"Q">>
StoredAnswer == <<"R">>
InitialMessages ==
  [id \in SessionIds |->
     IF id = 1
     THEN <<Message(DbId(1, 1), "user", StoredQuestion, 1, -1),
            Message(DbId(1, 2), "assistant", StoredAnswer, 1, 0)>>
     ELSE <<>>]

\* The record of a step: active tells whether the session it is about was
\* the active one when the step was taken.
Did(op, id, title) ==
  [op |-> op, id |-> id, title |-> title,
   active |-> id # NULL /\ id = currentSessionId]

\* A select awaiting its answer, and its answer.  `for` names the session
\* whose failed delete made the call, NULL for every other call.
Pending == [st |-> "pending", data |-> <<>>, for |-> NULL]
Ok(data) == [st |-> "ok", data |-> data, for |-> NULL]
\* fetchSessions() in the catch block of executeDelete
Refetch(id) == [Pending EXCEPT !.for = id]
\* { data, error } with error null, for the call f
Answered(f, data) == [f EXCEPT !.st = "ok", !.data = data]

IdleSend ==
  [pc |-> "idle", sessionId |-> NULL, hadSession |-> NULL, created |-> FALSE,
   queryText |-> <<>>, userId |-> TmpId(0), assistantMessageId |-> TmpId(0),
   buffer |-> <<>>, body |-> <<>>, saved |-> FALSE]

ChatInit ==
  /\ sessions = <<>>
  /\ currentSessionId = NULL
  /\ messages = <<>>
  /\ inputValue = <<>>
  /\ isLoading = FALSE
  /\ editingSessionId = NULL
  /\ editTitle = <<>>
  /\ deletingSessionId = NULL
  /\ now = 0
  /\ ops = 0
  /\ remoteSessions = <<Session(1, TitleA)>>
  /\ remoteMessages = InitialMessages
  /\ nextId = 2
  /\ fetchS = {Pending}
  /\ fetchM = {}
  /\ renames = {}
  /\ deletes = {}
  /\ send = IdleSend
  /\ alerts = 0
  /\ last = [op |-> "mount", id |-> NULL, title |-> <<>>, active |-> FALSE]

\* The decoder run of SpecDecoder is not part of the page.
DecoderIdle ==
  /\ wire = <<>> /\ delivered = 0 /\ mode = "chat" /\ buffer = <<>>
  /\ decoded = <<>> /\ calls = <<>> /\ phase = "ended"
  /\ resultData = JUndefined /\ cancelled = FALSE /\ request = ChatBody

Init == ChatInit /\ DecoderIdle

(***************************************************************************)
(* Remote store queries (supabase select ... order ...).                    *)
(***************************************************************************)
\* A variant of the select that finds no row.
ListSessions_Empty == <<>>

\* .from('chat_sessions').select('*').order('created_at', {ascending: false})
ListSessions == Reverse(remoteSessions)

\* A variant of the select that orders the rows newest first.
ListMessages_Descending(id) == Reverse(remoteMessages[id])

\* .from('messages').select('*').eq('session_id', id).order('created_at')
ListMessages(id) == remoteMessages[id]

(***************************************************************************)
(* fetchSessions and fetchMessages: the store answers with the rows as     *)
(* they are at that moment, and the answer reaches the page later; or the   *)
(* call fails.                                                              *)
(***************************************************************************)
FetchSessionsAnswer ==
  \E f \in fetchS :
  /\ f.st = "pending"
  /\ fetchS' = (fetchS \ {f}) \cup {Answered(f, ListSessions)}
  /\ last' = Did("FetchSessionsAnswer", NULL, <<>>)
  /\ UNCHANGED <<localVars, now, ops, remoteVars, fetchM, renames, deletes, send,
                 alerts, decoderVars>>

\* if (error) console.error(...): the list is left as it is
FetchSessionsFails ==
  \E f \in fetchS :
  /\ f.st = "pending"
  /\ fetchS' = fetchS \ {f}
  /\ last' = Did("FetchSessionsFails", NULL, <<>>)
  /\ UNCHANGED <<localVars, now, ops, remoteVars, fetchM, renames, deletes, send,
                 alerts, decoderVars>>

\* else setSessions(data || [])
FetchSessionsReturn ==
  \E resp \in fetchS :
    /\ resp.st = "ok"
    /\ fetchS' = fetchS \ {resp}
    /\ sessions' = resp.data
    /\ last' = Did("FetchSessionsReturn", resp.for, <<>>)
    /\ UNCHANGED <<currentSessionId, messages, inputValue, isLoading, editingSessionId,
                   editTitle, deletingSessionId, now, ops, remoteVars, fetchM, renames,
                   deletes, send, alerts, decoderVars>>

MsgFetch(sid, resp) == [sid |-> sid, st |-> resp.st, data |-> resp.data]

FetchMessagesAnswer ==
  \E f \in fetchM :
    /\ f.st = "pending"
    /\ fetchM' = (fetchM \ {f}) \cup {MsgFetch(f.sid, Ok(ListMessages(f.sid)))}
    /\ last' = Did("FetchMessagesAnswer", f.sid, <<>>)
    /\ UNCHANGED <<localVars, now, ops, remoteVars, fetchS, renames, deletes, send,
                   alerts, decoderVars>>

\* if (error) console.error(...): the list is left as it is
FetchMessagesFails ==
  \E f \in fetchM :
    /\ f.st = "pending"
    /\ fetchM' = fetchM \ {f}
    /\ last' = Did("FetchMessagesFails", f.sid, <<>>)
    /\ UNCHANGED <<localVars, now, ops, remoteVars, fetchS, renames, deletes, send,
                   alerts, decoderVars>>

\* else setMessages(data || [])
FetchMessagesReturn ==
  \E f \in fetchM :
    /\ f.st = "ok"
    /\ fetchM' = fetchM \ {f}
    /\ messages' = f.data
    /\ last' = Did("FetchMessagesReturn", f.sid, <<>>)
    /\ UNCHANGED <<sessions, currentSessionId, inputValue, isLoading, editingSessionId,
                   editTitle, deletingSessionId, now, ops, remoteVars, fetchS, renames,
                   deletes, send, alerts, decoderVars>>

\* useEffect[currentSessionId]: what a change of the active session id to
\* `id` does to the message list and to the loads in flight.
EffectMessages(id, msgs) == IF id = NULL THEN <<>> ELSE msgs
EffectFetches(id) == IF id = NULL THEN fetchM ELSE fetchM \cup {MsgFetch(id, Pending)}

(***************************************************************************)
(* Selecting a session, starting a new chat, typing.                        *)
(***************************************************************************)
\* A session of the list is clicked.  While a rename edit is in progress
\* the handler returns at once.
HandleSessionClick(id) ==
  /\ ops < MaxOps
  /\ id \in Ids(sessions)
  /\ editingSessionId = NULL
  /\ id # currentSessionId
  /\ ops' = ops + 1
  /\ currentSessionId' = id
  /\ messages' = EffectMessages(id, messages)
  /\ fetchM' = EffectFetches(id)
  /\ last' = Did("HandleSessionClick", id, <<>>)
  /\ UNCHANGED <<sessions, inputValue, isLoading, editingSessionId, editTitle,
                 deletingSessionId, now, remoteVars, fetchS, renames, deletes, send,
                 alerts, decoderVars>>

\* setCurrentSessionId(null); setMessages([]); setInputValue('')
NewChatMessages == <<>>

HandleNewChat ==
  /\ ops < MaxOps
  /\ ops' = ops + 1
  /\ currentSessionId' = NULL
  /\ messages' = NewChatMessages
  /\ inputValue' = <<>>
  /\ last' = Did("HandleNewChat", NULL, <<>>)
  /\ UNCHANGED <<sessions, isLoading, editingSessionId, editTitle, deletingSessionId,
                 now, remoteVars, flightVars, send, alerts, decoderVars>>

\* onChange of the compose area, which is disabled while a send is in flight.
\* Typing is modelled as long as a gesture can still follow it.
SetInputValue(text) ==
  /\ ops < MaxOps
  /\ ~isLoading
  /\ text # inputValue
  /\ inputValue' = text
  /\ last' = Did("SetInputValue", NULL, <<>>)
  /\ UNCHANGED <<sessions, currentSessionId, messages, isLoading, editingSessionId,
                 editTitle, deletingSessionId, now, ops, remoteVars, flightVars, send,
                 alerts, decoderVars>>

(***************************************************************************)
(* Rename.                                                                  *)
(***************************************************************************)
\* The row of `id` shows its menu only when it is not the row being edited.
StartRenaming(id) ==
  /\ ops < MaxOps
  /\ id \in Ids(sessions)
  /\ id # editingSessionId
  /\ ops' = ops + 1
  /\ editingSessionId' = id
  /\ editTitle' = TitleOf(sessions, id)
  /\ last' = Did("StartRenaming", id, <<>>)
  /\ UNCHANGED <<sessions, currentSessionId, messages, inputValue, isLoading,
                 deletingSessionId, now, remoteVars, flightVars, send,
                 alerts, decoderVars>>

\* The rename input exists while the edited session is in the list.
EditInputShown == editingSessionId # NULL /\ editingSessionId \in Ids(sessions)

\* onChange of the rename input
SetEditTitle(text) ==
  /\ EditInputShown
  /\ text # editTitle
  /\ editTitle' = text
  /\ last' = Did("SetEditTitle", editingSessionId, <<>>)
  /\ UNCHANGED <<sessions, currentSessionId, messages, inputValue, isLoading,
                 editingSessionId, deletingSessionId, now, ops, remoteVars, flightVars,
                 send, alerts, decoderVars>>

\* Variants of the guard of saveRename: one that leaves out the comparison
\* with the current title, one that leaves out the trim.
RenameIsNoOp_EmptyOnly(title, current) == Trim(title) = <<>>
RenameIsNoOp_NoTrim(title, current) == title = <<>> \/ title = current

\* !editTitle.trim() || editTitle === sessions.find(...)?.title
RenameIsNoOp(title, current) == Trim(title) = <<>> \/ title = current

\* prev.map(s => s.id === sessionId ? {...s, title: editTitle} : s)
WithTitle(list, id, title) ==
  [i \in 1..Len(list) |-> IF list[i].id = id THEN [list[i] EXCEPT !.title = title] ELSE list[i]]

\* const oldSessions = [...sessions]
RenameSnapshot(list) == list

\* A saveRename call awaiting the store: its arguments, its oldSessions,
\* and the title the session had in the list when the call began.
Rename(id, title, old, before) ==
  [sid |-> id, title |-> title, old |-> old, before |-> before]

SaveRename ==
  /\ EditInputShown
  /\ editingSessionId' = NULL
  /\ IF RenameIsNoOp(editTitle, TitleOf(sessions, editingSessionId))
     THEN UNCHANGED <<sessions, renames>>
     ELSE /\ sessions' = WithTitle(sessions, editingSessionId, editTitle)
          /\ renames' = renames \cup
               {Rename(editingSessionId, editTitle, RenameSnapshot(sessions),
                       TitleOf(sessions, editingSessionId))}
  /\ last' = Did("SaveRename", editingSessionId, editTitle)
  /\ UNCHANGED <<currentSessionId, messages, inputValue, isLoading, editTitle,
                 deletingSessionId, now, ops, remoteVars, fetchS, fetchM, deletes, send,
                 alerts, decoderVars>>

CancelRename ==
  /\ EditInputShown
  /\ editingSessionId' = NULL
  /\ editTitle' = <<>>
  /\ last' = Did("CancelRename", editingSessionId, <<>>)
  /\ UNCHANGED <<sessions, currentSessionId, messages, inputValue, isLoading,
                 deletingSessionId, now, ops, remoteVars, flightVars, send,
                 alerts, decoderVars>>

\* The PATCH succeeds: the store holds the new title; saveRename ends.
RenameSucceeds ==
  \E r \in renames :
    /\ r.sid \in Ids(remoteSessions)
    /\ remoteSessions' = WithTitle(remoteSessions, r.sid, r.title)
    /\ renames' = renames \ {r}
    /\ last' = Did("RenameSucceeds", r.sid, r.title)
    /\ UNCHANGED <<localVars, now, ops, remoteMessages, nextId, fetchS, fetchM, deletes,
                   send, alerts, decoderVars>>

\* A variant of the catch block of saveRename that leaves the list as it is.
RevertRename_Keep(r, list) == list

\* setSessions(oldSessions)
RevertRename(r, list) == r.old

\* The PATCH fails: the store is unchanged; the catch block reverts.
RenameFails ==
  \E r \in renames :
    /\ renames' = renames \ {r}
    /\ sessions' = RevertRename(r, sessions)
    /\ last' = Did("RenameFails", r.sid, r.title)
    /\ UNCHANGED <<currentSessionId, messages, inputValue, isLoading, editingSessionId,
                   editTitle, deletingSessionId, now, ops, remoteVars, fetchS, fetchM,
                   deletes, send, alerts, decoderVars>>

(***************************************************************************)
(* Delete.  The confirmation dialog is drawn over the page; the handlers   *)
(* themselves do not test deletingSessionId, and the model lets every      *)
(* handler run whose own conditions hold while the dialog is shown.        *)
(***************************************************************************)
ConfirmDeleteClicked(id) ==
  /\ ops < MaxOps
  /\ id \in Ids(sessions)
  /\ id # editingSessionId
  /\ id # deletingSessionId
  /\ ops' = ops + 1
  /\ deletingSessionId' = id
  /\ last' = Did("ConfirmDeleteClicked", id, <<>>)
  /\ UNCHANGED <<sessions, currentSessionId, messages, inputValue, isLoading,
                 editingSessionId, editTitle, now, remoteVars, flightVars, send,
                 alerts, decoderVars>>

\* The Cancel button of the confirmation dialog
CancelDelete ==
  /\ deletingSessionId # NULL
  /\ deletingSessionId' = NULL
  /\ last' = Did("CancelDelete", deletingSessionId, <<>>)
  /\ UNCHANGED <<sessions, currentSessionId, messages, inputValue, isLoading,
                 editingSessionId, editTitle, now, ops, remoteVars, flightVars, send,
                 alerts, decoderVars>>

\* prev.filter(s => s.id !== sessionId)
Without(list, id) == SelectSeq(list, LAMBDA x : x.id # id)

\* A variant of executeDelete that never resets the chat.
DeletedIsActive_Never(id) == FALSE

\* if (currentSessionId === sessionId) handleNewChat()
DeletedIsActive(id) == currentSessionId = id

\* A variant of executeDelete without its first line.
HasPendingDelete_Always == TRUE

\* if (!deletingSessionId) return
HasPendingDelete == deletingSessionId # NULL

ExecuteDelete ==
  /\ HasPendingDelete
  /\ deletingSessionId' = NULL
  /\ sessions' = Without(sessions, deletingSessionId)
  /\ IF DeletedIsActive(deletingSessionId)
     THEN /\ currentSessionId' = NULL
          /\ messages' = NewChatMessages
          /\ inputValue' = <<>>
     ELSE UNCHANGED <<currentSessionId, messages, inputValue>>
  /\ deletes' = deletes \cup {deletingSessionId}
  /\ last' = Did("ExecuteDelete", deletingSessionId, <<>>)
  /\ UNCHANGED <<isLoading, editingSessionId, editTitle, now, ops, remoteVars, fetchS,
                 fetchM, renames, send, alerts, decoderVars>>

\* The DELETE succeeds: the session and, by cascade, its messages are gone.
DeleteSucceeds ==
  \E id \in deletes :
    /\ id \in Ids(remoteSessions)
    /\ remoteSessions' = Without(remoteSessions, id)
    /\ remoteMessages' = [remoteMessages EXCEPT ![id] = <<>>]
    /\ deletes' = deletes \ {id}
    /\ last' = Did("DeleteSucceeds", id, <<>>)
    /\ UNCHANGED <<localVars, now, ops, nextId, fetchS, fetchM, renames, send,
                   alerts, decoderVars>>

\* The DELETE fails: fetchSessions() is called and an alert is shown.
DeleteFails ==
  \E id \in deletes :
    /\ deletes' = deletes \ {id}
    /\ fetchS' = fetchS \cup {Refetch(id)}
    /\ alerts' = alerts + 1
    /\ last' = Did("DeleteFails", id, <<>>)
    /\ UNCHANGED <<localVars, now, ops, remoteVars, fetchM, renames, send, decoderVars>>

(***************************************************************************)
(* Send: handleSendMessage, with the callback it gives streamChatResponse.  *)
(***************************************************************************)
\* The texts a read of the chat stream can return: a whole chunk event, a
\* chunk event in two halves, one or two visualization events and an error
\* event.
ChunkA == EventLine(TChunk) \o DataLine(JsonA) \o <<NL>>
ChunkBHead == EventLine(TChunk) \o <<"d", "a">>
ChunkBTail == <<"t", "a", ":", " ">> \o RawB \o NLNL
VizEvent == EventLine(TVisualization) \o DataLine(<<"{", "}">>) \o <<NL>>
ErrorEvent == EventLine(TError) \o DataLine(<<"x">>) \o <<NL>>
\* Two visualization events arriving in one read.
VizTwice == VizEvent \o EventLine(TVisualization) \o DataLine(<<"[", "]">>) \o <<NL>>
ReadValues == {ChunkA, ChunkBHead, ChunkBTail, VizEvent, VizTwice, ErrorEvent}

\* meta: {visualization: chunk}, an object holding the type and the text of
\* the value it wraps.
VisualizationMeta(chunk) == [t |-> "meta", v |-> <<chunk.t>> \o chunk.v]

\* A variant of the callback without the test of the message's id.
OnChunk_Everywhere(msgs, assistantMessageId, call) ==
  [i \in 1..Len(msgs) |->
     IF call.type = "visualization"
     THEN [msgs[i] EXCEPT !.meta = VisualizationMeta(call.payload)]
     ELSE [msgs[i] EXCEPT !.content = @ \o ToText(call.payload)]]

\* A variant of the callback that puts the text in place of the content.
OnChunk_Replace(msgs, assistantMessageId, call) ==
  [i \in 1..Len(msgs) |->
     IF msgs[i].id # assistantMessageId THEN msgs[i]
     ELSE IF call.type = "visualization"
          THEN [msgs[i] EXCEPT !.meta = VisualizationMeta(call.payload)]
          ELSE [msgs[i] EXCEPT !.content = ToText(call.payload)]]

\* The callback given to streamChatResponse, applied to the message list:
\* prev.map(msg => msg.id !== assistantMessageId ? msg : ...)
OnChunk(msgs, assistantMessageId, call) ==
  [i \in 1..Len(msgs) |->
     IF msgs[i].id # assistantMessageId THEN msgs[i]
     ELSE IF call.type = "visualization"
          THEN [msgs[i] EXCEPT !.meta = VisualizationMeta(call.payload)]
          ELSE [msgs[i] EXCEPT !.content = @ \o ToText(call.payload)]]

RECURSIVE OnChunks(_, _, _)
OnChunks(msgs, assistantMessageId, cs) ==
  IF cs = <<>> THEN msgs
  ELSE OnChunks(OnChunk(msgs, assistantMessageId, Head(cs)), assistantMessageId, Tail(cs))

\* const tempUserMsgId = Date.now().toString(), the clock reading t
tempUserMsgId(t) == TmpId(t)

\* A variant of the placeholder's id without the added one.
assistantMessageId_Plain(t) == TmpId(t)

\* const assistantMessageId = (Date.now() + 1).toString(), the clock reading t
assistantMessageId(t) == TmpId(t + 1)

\* The assistant placeholder; its id is (Date.now() + 1).toString().
Placeholder(t) == Message(assistantMessageId(t), "assistant", <<>>, NULL, t)

\* The message the catch block of handleSendMessage appends.
FailureText ==
  <<"E", "r", "r", "o", "r", ":", " ", "U", "n", "a", "b", "l", "e", " ", "t", "o", " ",
    "p", "r", "o", "c", "e", "s", "s", " ", "r", "e", "q", "u", "e", "s", "t", ".">>
\* A variant of the catch block that appends a message without text.
FailureMessage_Blank(t) == Message(ErrorId(t), "assistant", <<>>, NULL, t)

FailureMessage(t) == Message(ErrorId(t), "assistant", FailureText, NULL, t)

\* onChunk("\n[Connection Error]") in the catch block of streamChatResponse
ConnectionError ==
  Call(JStr(<<NL, "[", "C", "o", "n", "n", "e", "c", "t", "i", "o", "n", " ",
              "E", "r", "r", "o", "r", "]">>), "undefined")

\* A variant of finally that refreshes after every send.
RefreshAfterSend_Always(hadSession) == fetchS \cup {Pending}

\* finally: if (currentSessionId) fetchSessions(), with the currentSessionId
\* of the render in which the send began.
RefreshAfterSend(hadSession) ==
  IF hadSession # NULL THEN fetchS \cup {Pending} ELSE fetchS

\* Variants of the first line of handleSendMessage: one that tests the
\* in-flight flag only, one that tests nothing.
SendRejected_LoadingOnly(input, loading) == loading
SendRejected_Never(input, loading) == FALSE

\* if (!inputValue.trim() || isLoading) return
SendRejected(input, loading) == Trim(input) = <<>> \/ loading

\* Date.now(): the handler is entered by a user event, later than every
\* earlier reading of the clock, and reads it twice within one turn of the
\* event loop; a continuation after a remote call reads a later time.
\* handleSendMessage from its second line to its first await.
AcceptSend ==
  /\ inputValue' = <<>>
  /\ isLoading' = TRUE
  /\ IF currentSessionId = NULL
     THEN /\ now' = Later(now)
          /\ messages' = Append(messages, Message(tempUserMsgId(now'), "user", inputValue, NULL, now'))
          /\ send' = [IdleSend EXCEPT !.pc = "creating", !.queryText = inputValue,
                                      !.userId = tempUserMsgId(now')]
     ELSE /\ now' = Later(now)
          /\ messages' = messages \o
               <<Message(tempUserMsgId(now'), "user", inputValue, NULL, now'), Placeholder(now')>>
          /\ send' = [IdleSend EXCEPT !.pc = "streaming", !.queryText = inputValue,
                                      !.userId = tempUserMsgId(now'),
                                      !.sessionId = currentSessionId,
                                      !.hadSession = currentSessionId,
                                      !.assistantMessageId = assistantMessageId(now')]

\* The handler is entered by Enter in the compose area or by the send
\* button, with whatever the compose area holds; its first line returns
\* when there is nothing to send or a send is in flight.  (The page
\* disables both while a send is in flight; the model relies on the test
\* of the handler alone.)
HandleSendMessage ==
  /\ ops < MaxOps
  /\ ops' = ops + 1
  /\ IF SendRejected(inputValue, isLoading)
     THEN UNCHANGED <<messages, inputValue, isLoading, now, send>>
     ELSE AcceptSend
  /\ last' = Did("HandleSendMessage", currentSessionId, <<>>)
  /\ UNCHANGED <<sessions, currentSessionId, editingSessionId, editTitle,
                 deletingSessionId, remoteVars, flightVars, alerts, decoderVars>>

\* The insert into chat_sessions is done by the store.
InsertSession ==
  /\ send.pc = "creating"
  /\ remoteSessions' = Append(remoteSessions, Session(nextId, TitleNewChat))
  /\ nextId' = nextId + 1
  /\ send' = [send EXCEPT !.pc = "created", !.sessionId = nextId]
  /\ last' = Did("InsertSession", nextId, <<>>)
  /\ UNCHANGED <<localVars, now, ops, remoteMessages, flightVars, alerts, decoderVars>>

\* A variant that goes on to the stream without the answer of the insert.
SessionReady_Early(call) == call.pc \in {"creating", "created"}

\* const { data: newSession, error } = await ...insert(...); if (error)
\* throw error: the handler goes on only with the row the insert returned.
SessionReady(call) == call.pc = "created"

\* setSessions(prev => [newSession, ...prev])
Prepend(newSession, list) == <<newSession>> \o list

\* The insert's answer reaches the page: the new session becomes the
\* active one and heads the list, the placeholder is appended, and the
\* change of the active session id starts the load of its messages.
SessionCreated ==
  /\ SessionReady(send)
  /\ now' = Later(now)
  /\ messages' = Append(messages, Placeholder(now'))
  /\ send' = [send EXCEPT !.pc = "streaming", !.created = TRUE,
                          !.assistantMessageId = assistantMessageId(now')]
  /\ currentSessionId' = send.sessionId
  /\ sessions' = Prepend(Session(send.sessionId, TitleNewChat), sessions)
  /\ fetchM' = EffectFetches(send.sessionId)
  /\ last' = Did("SessionCreated", send.sessionId, <<>>)
  /\ UNCHANGED <<inputValue, isLoading, editingSessionId, editTitle, deletingSessionId,
                 ops, remoteVars, fetchS, renames, deletes, alerts, decoderVars>>

\* The insert fails (if (error) throw error): catch and finally run.
SessionCreationFails ==
  /\ send.pc = "creating"
  /\ now' = Later(now)
  /\ messages' = Append(messages, FailureMessage(now'))
  /\ isLoading' = FALSE
  /\ fetchS' = RefreshAfterSend(send.hadSession)
  /\ send' = [send EXCEPT !.pc = "failed"]
  /\ last' = Did("SessionCreationFails", NULL, <<>>)
  /\ UNCHANGED <<sessions, currentSessionId, inputValue, editingSessionId, editTitle,
                 deletingSessionId, ops, remoteVars, fetchM, renames, deletes,
                 alerts, decoderVars>>

\* A variant in which the call never returns nor throws.
StreamOpen_Never(call) == FALSE

\* A variant in which a settled call still reads its response body.
StreamOpen_Ever(call) == call.pc \in {"streaming", "ok", "failed"}

\* await streamChatResponse(...): the call is in progress from the moment
\* the placeholder has been appended until it returns or throws.
StreamOpen(call) == call.pc = "streaming"

\* A read of the response body returns text: the decoder makes its
\* callbacks, each applied to the message list in turn.
StreamRead ==
  /\ StreamOpen(send)
  /\ ops < MaxOps
  /\ ops' = ops + 1
  /\ \E value \in ReadValues :
       LET r == ChatRead(send.buffer, value) IN
       /\ messages' = OnChunks(messages, send.assistantMessageId, r.calls)
       /\ send' = [send EXCEPT !.buffer = r.buffer, !.body = @ \o value]
  /\ last' = Did("StreamRead", send.sessionId, <<>>)
  /\ UNCHANGED <<sessions, currentSessionId, inputValue, isLoading, editingSessionId,
                 editTitle, deletingSessionId, now, remoteVars, flightVars,
                 alerts, decoderVars>>

\* A read returns done: streamChatResponse returns, finally runs.
StreamEnds ==
  /\ StreamOpen(send)
  /\ isLoading' = FALSE
  /\ fetchS' = RefreshAfterSend(send.hadSession)
  /\ send' = [send EXCEPT !.pc = "ok"]
  /\ last' = Did("StreamEnds", send.sessionId, <<>>)
  /\ UNCHANGED <<sessions, currentSessionId, messages, inputValue, editingSessionId,
                 editTitle, deletingSessionId, now, ops, remoteVars, fetchM, renames,
                 deletes, alerts, decoderVars>>

\* The request fails (no connection, a non-success status, a failed read):
\* streamChatResponse reports through the callback and throws again, then
\* catch and finally of handleSendMessage run.
StreamFails ==
  /\ StreamOpen(send)
  /\ now' = Later(now)
  /\ messages' = Append(OnChunk(messages, send.assistantMessageId, ConnectionError),
                        FailureMessage(now'))
  /\ isLoading' = FALSE
  /\ fetchS' = RefreshAfterSend(send.hadSession)
  /\ send' = [send EXCEPT !.pc = "failed"]
  /\ last' = Did("StreamFails", send.sessionId, <<>>)
  /\ UNCHANGED <<sessions, currentSessionId, inputValue, editingSessionId, editTitle,
                 deletingSessionId, ops, remoteVars, fetchM, renames, deletes,
                 alerts, decoderVars>>

(***************************************************************************)
(* The backend behind the query endpoint stores the exchange once its       *)
(* answer is complete: the user's message and the assistant's message.      *)
(***************************************************************************)
\* The text of the chunk events of a response body.
RECURSIVE ChunkText(_)
ChunkText(evs) ==
  IF evs = <<>> THEN <<>>
  ELSE (IF Head(evs).eventType = TChunk /\ Dispatch(Head(evs)) # <<>>
        THEN ToText(Dispatch(Head(evs))[1].payload) ELSE <<>>) \o ChunkText(Tail(evs))

StoreExchange(id, query, answer) ==
  remoteMessages[id] \o
    <<Message(DbId(id, Len(remoteMessages[id]) + 1), "user", query, id, now),
      Message(DbId(id, Len(remoteMessages[id]) + 2), "assistant", answer, id, now)>>

BackendSaves ==
  /\ send.pc = "ok"
  /\ ~send.saved
  /\ send.sessionId \in Ids(remoteSessions)
  /\ remoteMessages' =
       [remoteMessages EXCEPT ![send.sessionId] =
          StoreExchange(send.sessionId, send.queryText,
                        ChunkText(ChatRead(<<>>, send.body).events))]
  /\ send' = [send EXCEPT !.saved = TRUE]
  /\ last' = Did("BackendSaves", send.sessionId, <<>>)
  /\ UNCHANGED <<localVars, now, ops, remoteSessions, nextId, flightVars,
                 alerts, decoderVars>>

(***************************************************************************)
(* A run of the decoder on one response body: the reads return the text in  *)
(* pieces of every length.                                                  *)
(***************************************************************************)
DecoderInit ==
  /\ mode \in {"chat", "oneshot"}
  /\ wire \in WireTexts(mode)
  /\ delivered = 0
  /\ buffer = <<>>
  /\ decoded = <<>>
  /\ calls = <<>>
  /\ phase = "reading"
  /\ resultData = JUndefined
  /\ cancelled = FALSE
  /\ request = IF mode = "oneshot" THEN OneShotBody ELSE ChatBody

\* reader.read() returns the next n characters of the body (chat mode).
ChatReadStep ==
  /\ mode = "chat" /\ phase = "reading"
  /\ \E n \in 1..(Len(wire) - delivered) :
       LET r == ChatRead(buffer, SubSeq(wire, delivered + 1, delivered + n)) IN
       /\ delivered' = delivered + n
       /\ buffer' = r.buffer
       /\ decoded' = decoded \o r.events
       /\ calls' = calls \o r.calls
  /\ UNCHANGED <<wire, mode, phase, resultData, cancelled, request, chatVars>>

\* A variant of the end of the loop that treats what is left in the buffer
\* as a complete event.
AtDone_Flush(buf) == ChatRead(buf, NLNL).calls

\* if (done) break: the callbacks made when a read returns done, none; the
\* text left in the buffer is not looked at again.
AtDone(buf) == <<>>

\* reader.read() returns done (chat mode): the loop ends, the buffer is dropped.
ChatEndStep ==
  /\ mode = "chat" /\ phase = "reading" /\ delivered = Len(wire)
  /\ phase' = "ended"
  /\ calls' = calls \o AtDone(buffer)
  /\ UNCHANGED <<wire, delivered, mode, buffer, decoded, resultData, cancelled,
                 request, chatVars>>

\* reader.read() returns the next n characters of the body (one-shot mode).
OneShotReadStep ==
  /\ mode = "oneshot" /\ phase = "reading"
  /\ \E n \in 1..(Len(wire) - delivered) :
       LET r == OneShotRead(buffer, SubSeq(wire, delivered + 1, delivered + n)) IN
       /\ delivered' = delivered + n
       /\ buffer' = r.buffer
       /\ IF r.out.found
          THEN phase' = "returned" /\ resultData' = r.out.result /\ cancelled' = TRUE
          ELSE UNCHANGED <<phase, resultData, cancelled>>
  /\ UNCHANGED <<wire, mode, decoded, calls, request, chatVars>>

\* reader.read() returns done (one-shot mode): return resultData || [].
OneShotEndStep ==
  /\ mode = "oneshot" /\ phase = "reading" /\ delivered = Len(wire)
  /\ phase' = "ended"
  /\ resultData' = OneShotDefault
  /\ cancelled' = TRUE
  /\ UNCHANGED <<wire, delivered, mode, buffer, decoded, calls, request, chatVars>>

\* if (!response.ok) throw: fetchSSEData fails before it has a reader.
OneShotRefusedStep ==
  /\ mode = "oneshot" /\ phase = "reading" /\ delivered = 0
  /\ phase' = "refused"
  /\ UNCHANGED <<wire, delivered, mode, buffer, decoded, calls, resultData, cancelled,
                 request, chatVars>>

\* reader.read() throws (one-shot mode): finally runs, the error goes to
\* the caller.
OneShotFailStep ==
  /\ mode = "oneshot" /\ phase = "reading"
  /\ phase' = "failed"
  /\ cancelled' = TRUE
  /\ UNCHANGED <<wire, delivered, mode, buffer, decoded, calls, resultData, request,
                 chatVars>>

DecoderNext ==
  \/ ChatReadStep
  \/ ChatEndStep
  \/ OneShotReadStep
  \/ OneShotEndStep
  \/ OneShotRefusedStep
  \/ OneShotFailStep

(***************************************************************************)
(* A run of the chat decoder on a body made of whole event blocks: up to    *)
(* MaxEvents of them, keep-alive blocks and events with good and bad data,  *)
(* again split into reads in every way.                                     *)
(***************************************************************************)
KeepAliveEmpty == NLNL
KeepAliveSpace == <<SP>> \o NLNL
BadChunk == EventLine(TChunk) \o DataLine(RawB) \o <<NL>>
BadViz == EventLine(TVisualization) \o DataLine(RawB) \o <<NL>>
EventBlocks == {KeepAliveEmpty, KeepAliveSpace, ChunkA, BadChunk, VizEvent, BadViz}

RECURSIVE BlockSeqs(_)
BlockSeqs(n) ==
  IF n = 0 THEN {<<>>}
  ELSE BlockSeqs(n - 1) \cup
       {q \o <<b>> : q \in {r \in BlockSeqs(n - 1) : Len(r) = n - 1}, b \in EventBlocks}

EventTexts == {Flatten(q) : q \in BlockSeqs(MaxEvents)}

EventsInit ==
  /\ mode = "chat"
  /\ wire \in EventTexts
  /\ delivered = 0
  /\ buffer = <<>>
  /\ decoded = <<>>
  /\ calls = <<>>
  /\ phase = "reading"
  /\ resultData = JUndefined
  /\ cancelled = FALSE
  /\ request = ChatBody

EventsNext == ChatReadStep \/ ChatEndStep

(***************************************************************************)
(* The two temporary ids of one send, for every pair of readings of a      *)
(* clock that does not go back: the clock advances, the user message's id  *)
(* is taken, the clock advances, the placeholder's id is taken.            *)
(***************************************************************************)
ClockTick ==
  /\ now < MaxClock
  /\ now' = now + 1
  /\ UNCHANGED <<localVars, ops, remoteVars, flightVars, send, alerts, last, decoderVars>>

\* const tempUserMsgId = Date.now().toString()
TakeUserId ==
  /\ send.pc = "idle"
  /\ send' = [send EXCEPT !.pc = "creating", !.userId = tempUserMsgId(now)]
  /\ last' = Did("TakeUserId", NULL, <<>>)
  /\ UNCHANGED <<localVars, now, ops, remoteVars, flightVars, alerts, decoderVars>>

\* const assistantMessageId = (Date.now() + 1).toString()
TakeAssistantId ==
  /\ send.pc = "creating"
  /\ send' = [send EXCEPT !.pc = "streaming", !.assistantMessageId = assistantMessageId(now)]
  /\ last' = Did("TakeAssistantId", NULL, <<>>)
  /\ UNCHANGED <<localVars, now, ops, remoteVars, flightVars, alerts, decoderVars>>

IdsNext == ClockTick \/ TakeUserId \/ TakeAssistantId

(***************************************************************************)
(* The specifications.                                                      *)
(***************************************************************************)
Next ==
  \/ FetchSessionsAnswer
  \/ FetchSessionsFails
  \/ FetchSessionsReturn
  \/ FetchMessagesAnswer
  \/ FetchMessagesFails
  \/ FetchMessagesReturn
  \/ \E id \in SessionIds : HandleSessionClick(id)
  \/ HandleNewChat
  \/ \E text \in ComposeInputs : SetInputValue(text)
  \/ \E id \in SessionIds : StartRenaming(id)
  \/ \E text \in EditInputs : SetEditTitle(text)
  \/ SaveRename
  \/ CancelRename
  \/ RenameSucceeds
  \/ RenameFails
  \/ \E id \in SessionIds : ConfirmDeleteClicked(id)
  \/ CancelDelete
  \/ ExecuteDelete
  \/ DeleteSucceeds
  \/ DeleteFails
  \/ HandleSendMessage
  \/ InsertSession
  \/ SessionCreated
  \/ SessionCreationFails
  \/ StreamRead
  \/ StreamEnds
  \/ StreamFails
  \/ BackendSaves

\* The page: every interleaving of up to MaxOps user gestures and stream
\* reads with the answers of the store.
Spec == Init /\ [][Next]_vars

\* A run of the decoder on one response body, split into reads in every way.
DecoderStart == DecoderInit /\ ChatInit
SpecDecoder == DecoderStart /\ [][DecoderNext]_vars

\* A run of the chat decoder on a body of whole event blocks.
EventsStart == EventsInit /\ ChatInit
SpecEvents == EventsStart /\ [][EventsNext]_vars

\* The page with the stored session opened: the list has been fetched, the
\* session clicked and its messages loaded.  ops counts the gestures made
\* from here on.
ChatOpened ==
  /\ sessions = <<Session(1, TitleA)>>
  /\ currentSessionId = 1
  /\ messages = InitialMessages[1]
  /\ inputValue = <<>>
  /\ isLoading = FALSE
  /\ editingSessionId = NULL
  /\ editTitle = <<>>
  /\ deletingSessionId = NULL
  /\ now = 0
  /\ ops = 0
  /\ remoteSessions = <<Session(1, TitleA)>>
  /\ remoteMessages = InitialMessages
  /\ nextId = 2
  /\ fetchS = {}
  /\ fetchM = {}
  /\ renames = {}
  /\ deletes = {}
  /\ send = IdleSend
  /\ alerts = 0
  /\ last = [op |-> "FetchMessagesReturn", id |-> 1, title |-> <<>>, active |-> TRUE]

OpenedStart == ChatOpened /\ DecoderIdle
SpecOpened == OpenedStart /\ [][Next]_vars

\* The opened page when every remote call of a send and every read of its
\* stream returns in the end: the insert is answered, its answer reaches
\* the handler, and the stream ends or fails.
SendReturns ==
  /\ WF_vars(InsertSession \/ SessionCreationFails)
  /\ WF_vars(SessionCreated)
  /\ WF_vars(StreamEnds \/ StreamFails)
SpecSettles == OpenedStart /\ [][Next]_vars /\ SendReturns

\* The temporary ids of one send under every non-decreasing clock.
IdsStart == ChatInit /\ DecoderIdle
SpecIds == IdsStart /\ [][IdsNext]_vars

(***************************************************************************)
(* Properties of the stream decoder, checked under SpecDecoder.             *)
(***************************************************************************)

\* The result fetchSSEData gives when the whole body arrives in one read.
OneShotWhole(text) ==
  LET r == OneShotRead(<<>>, text) IN
  IF r.out.found THEN r.out.result ELSE OneShotDefault

\* C3: chunk-boundary independence.  However the body has been split into
\* reads, the chat-mode decoder has made the callbacks (and holds the
\* buffer) that a single read of the text delivered so far makes, and the
\* one-shot decoder returns what it returns when the whole body arrives in
\* a single read.
C3_ChunkBoundaryIndependence ==
  /\ mode = "chat" =>
       LET one == ChatRead(<<>>, SubSeq(wire, 1, delivered)) IN
       /\ calls = one.calls
       /\ buffer = one.buffer
  /\ (mode = "oneshot" /\ phase \in {"returned", "ended"}) =>
       resultData = OneShotWhole(wire)

\* A chat-mode run that has delivered an event and then, at a later read
\* boundary, holds the beginning of the next event in its buffer.
C3_Witness ==
  /\ mode = "chat"
  /\ calls # <<>>
  /\ ~IsKeepAlive(buffer)
  /\ delivered < Len(wire)

\* The values of the `data: ` lines of one event, in order.
DataValues(part) ==
  LET lines == SelectSeq(Split(part, <<NL>>), LAMBDA l : StartsWith(l, DataPrefix))
  IN [i \in 1..Len(lines) |-> Slice(lines[i], 6)]

\* C4: for every event with two or more `data: ` lines, the payload the
\* chat-mode decoder assembles is the lines' values joined by a single
\* newline, in their original order.
C4_MultiLineJoin ==
  \A i \in 1..Len(decoded) :
    Len(DataValues(decoded[i].part)) >= 2 =>
      decoded[i].data = Join(DataValues(decoded[i].part), <<NL>>)

(***************************************************************************)
(* Properties of the page, checked under Spec.                              *)
(***************************************************************************)

\* The number of entries of a session list with the given id.
Count(list, id) == Cardinality({i \in DOMAIN list : list[i].id = id})

\* The message list ends with the user message and the assistant message
\* of the send.
EndsWithExchange(msgs, s) ==
  /\ Len(msgs) >= 2
  /\ msgs[Len(msgs) - 1].id = s.userId
  /\ msgs[Len(msgs) - 1].role = "user"
  /\ msgs[Len(msgs)].id = s.assistantMessageId
  /\ msgs[Len(msgs)].role = "assistant"

\* The send is the only gesture the user has made, and its stream ended
\* without a read.
OnlyTheSend == ops = 1

\* C1: when a send that began with no active session completes, the send
\* being the only gesture of the user, the new session is in the local
\* list exactly once, at its head, and the message list ends with the user
\* message followed by the assistant message, however the creation of the
\* session, the reload of the messages and the session-list fetch in
\* flight interleave.
C1_NewSessionSend ==
  [][(last'.op = "StreamEnds" /\ send.created /\ OnlyTheSend)
       => /\ Count(sessions', send.sessionId) = 1
          /\ Head(sessions').id = send.sessionId
          /\ EndsWithExchange(messages', send)]_vars

\* The assistant messages of the list with the given id.
Placeholders(msgs, id) == SelectSeq(msgs, LAMBDA m : m.id = id)

\* The body of the send holds chunk events and no error event.
ChunksOnly(s) ==
  LET evs == ChatRead(<<>>, s.body).events IN
  /\ ChunkText(evs) # <<>>
  /\ \A i \in 1..Len(evs) : evs[i].eventType # TError

\* C2: when a streaming send whose body holds chunk events completes with
\* its session still the active one, the content of the assistant
\* placeholder is the concatenation of the payloads of the chunk events in
\* the order of their arrival.
C2_StreamConcatenation ==
  [][(last'.op = "StreamEnds" /\ ChunksOnly(send) /\ send.buffer = <<>>
        /\ currentSessionId' = send.sessionId)
       => LET ps == Placeholders(messages', send.assistantMessageId) IN
          /\ Len(ps) = 1
          /\ ps[1].content = ChunkText(ChatRead(<<>>, send.body).events)]_vars

\* C5: the active session id is null or the id of a session of the local
\* list.
C5_ActiveSessionListed ==
  currentSessionId = NULL \/ currentSessionId \in Ids(sessions)

\* Nothing is awaited from the store: no fetch, rename or delete is in
\* flight.
Settled == fetchS = {} /\ renames = {} /\ deletes = {}

\* C6: once every rename in flight has settled, and no other call is in
\* flight, each session of the local list has the title it has in the
\* remote store.
C6_TitlesConverge ==
  Settled =>
    \A i \in DOMAIN sessions :
      sessions[i].id \in Ids(remoteSessions) =>
        sessions[i].title = TitleOf(remoteSessions, sessions[i].id)

\* C7: when the remote rename fails, the local title of the renamed
\* session is again the title it had before the rename was applied.
C7_FailedRenameRestores ==
  [][last'.op = "RenameFails"
       => \A r \in renames \ renames' : TitleOf(sessions', r.sid) = r.before]_vars

\* A rename of a session from one title to another has failed, and the list
\* shows a title other than the one asked for.
C7_Witness ==
  /\ last.op = "RenameFails"
  /\ last.id \in Ids(sessions)
  /\ TitleOf(sessions, last.id) # last.title

\* C8: saving a rename whose title is identical to the current title of the
\* session leaves the local list as it is and issues no rename request.
C8_IdenticalTitleNoOp ==
  [][(last'.op = "SaveRename" /\ editTitle = TitleOf(sessions, editingSessionId))
       => (sessions' = sessions /\ renames' = renames)]_vars

\* A rename was saved with the title the session has, and nothing is in
\* flight for it.
C8_Witness ==
  /\ last.op = "SaveRename"
  /\ Trim(last.title) # <<>>
  /\ last.title = TitleOf(sessions, last.id)
  /\ renames = {}

\* C9 as stated: saving a rename whose title is empty after trimming, or
\* whose trimmed title equals the current title, changes neither the local
\* title nor issues a rename request.
C9_TrimmedTitleNoOp ==
  [][(last'.op = "SaveRename"
        /\ \/ Trim(editTitle) = <<>>
           \/ Trim(editTitle) = TitleOf(sessions, editingSessionId))
       => (sessions' = sessions /\ renames' = renames)]_vars

\* C9 amended: saving a rename whose title is empty after trimming, or
\* whose title as typed equals the current title, changes neither the local
\* title nor issues a rename request.
C9_TypedTitleNoOp ==
  [][(last'.op = "SaveRename"
        /\ \/ Trim(editTitle) = <<>>
           \/ editTitle = TitleOf(sessions, editingSessionId))
       => (sessions' = sessions /\ renames' = renames)]_vars

\* A rename was saved with a title of white space only: the session keeps
\* its title and nothing is in flight.
C9_Witness ==
  /\ last.op = "SaveRename"
  /\ last.title # <<>>
  /\ Trim(last.title) = <<>>
  /\ TitleOf(sessions, last.id) = TitleA
  /\ renames = {}

\* C10: executeDelete removes the session from the local list; when it is
\* the active session the active id becomes null and the message list
\* empty, otherwise the active id and the message list are left as they
\* are.
C10_DeleteActiveClears ==
  [][last'.op = "ExecuteDelete"
       => /\ deletingSessionId \notin Ids(sessions')
          /\ IF currentSessionId = deletingSessionId
             THEN currentSessionId' = NULL /\ messages' = <<>>
             ELSE currentSessionId' = currentSessionId /\ messages' = messages]_vars

\* The session deleted last was the active one.
C10_Witness ==
  /\ last.op = "ExecuteDelete"
  /\ last.active
  /\ currentSessionId = NULL
  /\ messages = <<>>

\* C11: when the remote delete of a session fails, a refetch of the session
\* list is issued and the failure notice is shown; and when the answer of
\* that refetch reaches the page, the session, unless a later delete has
\* removed it from the store, is in the local list again.
C11_FailedDeleteRefetches ==
  [][/\ last'.op = "DeleteFails"
          => (Refetch(last'.id) \in fetchS' /\ alerts' = alerts + 1)
     /\ (last'.op = "FetchSessionsReturn" /\ last'.id # NULL
           /\ last'.id \in Ids(remoteSessions))
          => last'.id \in Ids(sessions')]_vars

\* The refetch issued after a failed delete has brought the session back.
C11_Witness ==
  /\ last.op = "FetchSessionsReturn"
  /\ last.id # NULL
  /\ alerts > 0
  /\ last.id \in Ids(sessions)
  /\ deletes = {}

\* C12: a remote delete is issued, and the session removed from the local
\* list with it, only by the confirm action, only while the pending-delete
\* marker is set and only for the marked session; confirm and cancel clear
\* the marker; cancel changes neither the session list nor the remote
\* store nor the requests in flight.
C12_DeleteNeedsConfirmation ==
  [][/\ last'.op # "ExecuteDelete" => deletes' \subseteq deletes
     /\ last'.op = "ExecuteDelete"
          => /\ deletingSessionId # NULL
             /\ deletes' = deletes \cup {deletingSessionId}
             /\ Ids(sessions') = Ids(sessions) \ {deletingSessionId}
             /\ deletingSessionId' = NULL
     /\ last'.op = "CancelDelete"
          => /\ deletingSessionId' = NULL
             /\ UNCHANGED <<sessions, remoteSessions, remoteMessages, deletes>>]_vars

\* A marked session has been confirmed: it has left the list, its delete is
\* in flight and the marker is cleared.
C12_Witness ==
  /\ last.op = "ExecuteDelete"
  /\ last.id \in deletes
  /\ last.id \notin Ids(sessions)
  /\ last.id \in Ids(remoteSessions)
  /\ deletingSessionId = NULL

\* C13: a send whose input is empty or white space only is a no-op: no
\* message is appended, no session is created, no request is issued and
\* the in-flight flag is not set.
C13_BlankSendNoOp ==
  [][(last'.op = "HandleSendMessage" /\ Trim(inputValue) = <<>>)
       => UNCHANGED <<messages, sessions, currentSessionId, remoteSessions,
                      remoteMessages, send, fetchS, fetchM, isLoading>>]_vars

\* Enter was pressed on a compose area holding white space only, with no
\* send in flight.
C13_Witness ==
  /\ last.op = "HandleSendMessage"
  /\ inputValue # <<>>
  /\ Trim(inputValue) = <<>>
  /\ ~isLoading
  /\ send.pc = "idle"
  /\ messages = <<>>

\* C14: while a send is in flight, a further send request is ignored: it
\* appends no message, issues no request and is not queued, so that the
\* one send and its one stream go on as they were.
C14_SingleFlight ==
  [][(last'.op = "HandleSendMessage" /\ isLoading)
       => UNCHANGED <<messages, sessions, currentSessionId, remoteSessions,
                      remoteMessages, send, fetchS, fetchM, isLoading, inputValue>>]_vars

\* A send request was made while the session of the send in flight was
\* being created.
C14_Witness ==
  /\ last.op = "HandleSendMessage"
  /\ isLoading
  /\ send.pc = "created"

\* C15: when the stream of a send has completed, its session still being
\* the active one, the message list holds exactly one assistant message of
\* that exchange: the placeholder added before the stream was opened.
C15_OneAssistantMessage ==
  [][(last'.op = "StreamEnds" /\ currentSessionId' = send.sessionId)
       => /\ Len(Placeholders(messages', send.assistantMessageId)) = 1
          /\ Placeholders(messages', send.assistantMessageId)[1].role = "assistant"]_vars

\* The step is the failure of a send: of the creation of its session, of
\* the request, or of a read of its stream.
SendFailed(op) == op \in {"SessionCreationFails", "StreamFails"}

\* The messages of the list with the given id.
WithId(msgs, id) == SelectSeq(msgs, LAMBDA m : m.id = id)

\* C16: when a send fails, one message is appended to the message list, an
\* assistant message of its own reporting the failure, and the user
\* message of the send, if the list holds it, stays in the list as it is.
C16_FailureAppendsKeepsUser ==
  [][SendFailed(last'.op)
       => /\ Len(messages') = Len(messages) + 1
          /\ Last(messages').role = "assistant"
          /\ Last(messages').content = FailureText
          /\ Last(messages').id \notin {messages[i].id : i \in DOMAIN messages}
          /\ WithId(messages', send.userId) = WithId(messages, send.userId)]_vars

\* The stream of a send failed after a read, and the list holds the user
\* message of the send and ends with the failure message.
C16_Witness ==
  /\ last.op = "StreamFails"
  /\ send.body # <<>>
  /\ Len(WithId(messages, send.userId)) = 1
  /\ messages # <<>>
  /\ Last(messages).content = FailureText

\* The text streamChatResponse reports through the callback when it fails.
ConnectionErrorText == ToText(ConnectionError.payload)

\* How many messages of the list carry a failure marker: the text of
\* streamChatResponse's report, or the text of the synthetic message.
FailureMarkers(msgs) ==
  Cardinality({i \in DOMAIN msgs :
                 \/ Includes(msgs[i].content, ConnectionErrorText)
                 \/ msgs[i].content = FailureText})

\* C17: the failure of a send is reported in the message list exactly once:
\* the failing step leaves one more message carrying a failure marker than
\* there was before, the synthetic assistant message.
C17_FailureReportedOnce ==
  [][SendFailed(last'.op)
       => FailureMarkers(messages') = FailureMarkers(messages) + 1]_vars

(***************************************************************************)
(* The one-shot path (fetchSSEData)                                        *)
(***************************************************************************)

\* The complete events (those closed by a blank line) of the text the
\* one-shot reader has been given so far.
Observed == Front(Split(SubSeq(wire, 1, delivered), NLNL))

\* The event declares the type metadata on an `event: ` line.
IsMetadataEvent(part) ==
  \E l \in {Split(part, <<NL>>)[i] : i \in DOMAIN Split(part, <<NL>>)} :
    StartsWith(l, EventPrefix) /\ Trim(Slice(l, 7)) = TMetadata

\* The one-shot run is over without a transport failure.
OneShotOver == mode = "oneshot" /\ phase \in {"ended", "returned"}

\* C18: a one-shot stream that is over without a metadata event among its
\* complete events gives the empty array, and does not fail.
C18_NoMetadataGivesEmptyArray ==
  (OneShotOver /\ \A i \in DOMAIN Observed : ~IsMetadataEvent(Observed[i]))
    => resultData = JEmptyArray

UsablePayload(part) ==
  /\ IsMetadataEvent(part)
  /\ DataValues(part) # <<>>
  /\ JSONParse(DataValues(part)[1]).t # "SyntaxError"
  /\ DataMember(JSONParse(DataValues(part)[1])).t # "TypeError"

\* The positions of the observed metadata events with a usable payload.
UsableAt == {i \in DOMAIN Observed : UsablePayload(Observed[i])}

\* The event does not declare the type metadata, yet its text holds the
\* characters `event: metadata`.
HoldsMarkOnly(part) == ~IsMetadataEvent(part) /\ Includes(part, MetadataMark)

\* Once a usable payload has been observed, the run has returned; what it
\* returned is the data member of the first usable payload when no event
\* of another type holding the characters `event: metadata` came before
\* it; and any way out that has a reader has cancelled it.
ReturnedFirstUsable ==
  /\ (phase \notin {"refused", "failed"} /\ UsableAt # {}) =>
       LET k == CHOOSE i \in UsableAt : \A j \in UsableAt : i <= j IN
       /\ phase = "returned"
       /\ (\A j \in 1..(k - 1) : ~HoldsMarkOnly(Observed[j]))
            => resultData = DataMember(JSONParse(DataValues(Observed[k])[1]))
  /\ phase \in {"returned", "ended", "failed"} => cancelled

C20_OneShotLeavesHistory ==
  [][mode = "oneshot" =>
       /\ request.save_to_history = "false"
       /\ request'.save_to_history = "false"
       /\ UNCHANGED <<sessions, currentSessionId, messages>>]_vars

\* A one-shot run failed on a read after part of the body had arrived.
C20_Witness ==
  /\ mode = "oneshot" /\ phase = "failed"
  /\ delivered > 0
  /\ request = OneShotBody
  /\ cancelled

(***************************************************************************)
(* Mutual exclusion of the mutating requests.                               *)
(***************************************************************************)

\* The rename and delete requests in flight for the session `id`.
MutationsInFlight(id) ==
  Cardinality({r \in renames : r.sid = id}) + (IF id \in deletes THEN 1 ELSE 0)

\* C21: at any time at most one remote mutating request (rename or delete)
\* is in flight for a given session.
C21_OneMutationPerSession ==
  \A id \in SessionIds : MutationsInFlight(id) <= 1

(***************************************************************************)
(* Navigation while a rename edit is in progress.                           *)
(***************************************************************************)

\* The step is a select-session action: a click on a session of the list,
\* or the New Chat button (select "no session").
IsSelectStep(op) == op \in {"HandleSessionClick", "HandleNewChat"}

\* C22: while a rename edit is in progress for any session, no
\* select-session action, of an existing session or of "no session",
\* changes the active session id or the message list.
C22_NoNavigationWhileEditing ==
  [][(editingSessionId # NULL /\ IsSelectStep(last'.op))
       => UNCHANGED <<currentSessionId, messages>>]_vars

\* The opened page is a state the page reaches from its construction.
OpenedReachable ==
  /\ sessions = <<Session(1, TitleA)>>
  /\ currentSessionId = 1
  /\ messages = InitialMessages[1]
  /\ fetchS = {} /\ fetchM = {}
  /\ send = IdleSend
  /\ last.op = "FetchMessagesReturn"

(***************************************************************************)
(* The assistant placeholder while its stream is read.                      *)
(***************************************************************************)

\* The ids of the assistant messages that are in the list before and after
\* a step and whose content or meta the step changed.
AssistantChanged(old, new) ==
  {old[i].id : i \in {k \in DOMAIN old :
      /\ old[k].role = "assistant"
      /\ \E j \in DOMAIN new :
           /\ new[j].id = old[k].id
           /\ (new[j].content # old[k].content \/ new[j].meta # old[k].meta)}}

\* C23: chunk, visualization and error events are applied to the message
\* list only while their send is streaming: a step that changes an
\* assistant message is taken with the stream open and the in-flight flag
\* set, and the message it changes is the placeholder of that send.
C23_EventsOnlyWhileStreaming ==
  [][AssistantChanged(messages, messages') # {}
       => /\ send.pc = "streaming"
          /\ isLoading
          /\ AssistantChanged(messages, messages') = {send.assistantMessageId}]_vars

\* A read of the stream has put text into the placeholder, and the send is
\* still in flight.
C23_Witness ==
  /\ last.op = "StreamRead"
  /\ send.pc = "streaming" /\ isLoading
  /\ \E i \in DOMAIN messages :
       messages[i].id = send.assistantMessageId /\ messages[i].content # <<>>


IsPrefix(p, q) == Len(p) <= Len(q) /\ SubSeq(q, 1, Len(p)) = p

\* C24: from the creation of the placeholder until its send settles, the
\* failure of the stream included, every change to the content of the
\* placeholder extends it: the content before the step is a prefix of the
\* content after it.
C24_ContentAppendOnly ==
  [][\A i \in DOMAIN messages : \A j \in DOMAIN messages' :
       (messages[i].role = "assistant" /\ messages'[j].id = messages[i].id)
         => IsPrefix(messages[i].content, messages'[j].content)]_vars

\* The stream failed after a chunk had been delivered: the placeholder
\* holds the chunk's text followed by the report of the failure.
C24_Witness ==
  /\ last.op = "StreamFails"
  /\ \E i \in DOMAIN messages :
       /\ messages[i].id = send.assistantMessageId
       /\ messages[i].content = <<"A">> \o ConnectionErrorText


\* How many of the callbacks cs write the meta of the placeholder.
MetaWrites(cs) == Cardinality({i \in DOMAIN cs : cs[i].type = "visualization"})

\* C25: the meta of an assistant message is written at most once, whatever
\* the events of its stream: of the callbacks made for the part of the body
\* read so far, at most one writes the meta of the placeholder.
C25_MetaWrittenOnce ==
  (\E i \in DOMAIN messages : messages[i].id = send.assistantMessageId)
    => MetaWrites(ChatRead(<<>>, send.body).calls) <= 1


(***************************************************************************)
(* Order of the message list.                                               *)
(***************************************************************************)

\* C26: in every reachable state the local message list is ordered by
\* non-decreasing creation time, whether its messages were loaded, added
\* optimistically, or made for a failure.
C26_OrderedByCreation ==
  \A i \in DOMAIN messages : \A j \in DOMAIN messages :
    i < j => messages[i].at <= messages[j].at

\* A send in the opened session failed: the list holds the two loaded
\* messages, the user message, the placeholder and the failure message.
C26_Witness ==
  /\ last.op = "StreamFails"
  /\ Len(messages) = 5
  /\ messages[1].id = DbId(1, 1)
  /\ messages[4].id = send.assistantMessageId
  /\ messages[5].content = FailureText


(***************************************************************************)
(* Properties of the chat decoder on bodies of whole events, checked under  *)
(* SpecEvents.                                                              *)
(***************************************************************************)

\* The complete blocks of the text read so far that are not keep-alives.
LiveBlocks ==
  SelectSeq(Front(Split(SubSeq(wire, 1, delivered), NLNL)), LAMBDA b : Trim(b) # <<>>)

\* The event has data that is not JSON.
HasBadData(ev) == ev.data # <<>> /\ JSONParse(ev.data).t = "SyntaxError"
BadChunkEvent(ev) == ev.eventType = TChunk /\ HasBadData(ev)
BadVizEvent(ev) == ev.eventType = TVisualization /\ HasBadData(ev)

\* What an event has to deliver: a chunk with bad data its raw data as
\* text, a visualization with bad data nothing, any other event what its
\* type says.
Delivery(ev) ==
  IF BadChunkEvent(ev) THEN <<Call(JStr(ev.data), "text")>>
  ELSE IF BadVizEvent(ev) THEN <<>>
  ELSE Dispatch(ev)

RECURSIVE Deliveries(_)
Deliveries(evs) ==
  IF evs = <<>> THEN <<>> ELSE Delivery(Head(evs)) \o Deliveries(Tail(evs))

\* C27: a chunk or visualization event whose payload is not valid JSON
\* never aborts the stream: every complete event read so far has been
\* decoded, the bad chunk's raw payload is delivered as literal text, the
\* bad visualization makes no callback, and the events after them are
\* delivered as well.
C27_BadPayloadKeepsStream ==
  /\ Len(decoded) = Len(LiveBlocks)
  /\ \A i \in DOMAIN decoded : decoded[i].part = LiveBlocks[i]
  /\ calls = Deliveries(decoded)
  /\ phase \in {"reading", "ended"}

\* The body began with an event whose data is not JSON, and the chunk event
\* after it has been delivered.
C27_Witness ==
  /\ phase = "ended"
  /\ Len(decoded) = 2
  /\ BadChunkEvent(decoded[1]) \/ BadVizEvent(decoded[1])
  /\ decoded[2].eventType = TChunk
  /\ calls # <<>>
  /\ Last(calls) = Call(JStr(<<"A">>), "text")


\* The text with its keep-alive blocks taken out: the other complete
\* blocks, each with its blank line, and the unterminated tail.
RECURSIVE Terminated(_)
Terminated(blocks) ==
  IF blocks = <<>> THEN <<>> ELSE Head(blocks) \o NLNL \o Terminated(Tail(blocks))

WithoutKeepAlives(text) ==
  LET parts == Split(text, NLNL) IN
  Terminated(SelectSeq(Front(parts), LAMBDA b : Trim(b) # <<>>)) \o Last(parts)

\* The complete blocks of the text read so far that are keep-alives.
KeepAlivesRead ==
  SelectSeq(Front(Split(SubSeq(wire, 1, delivered), NLNL)), LAMBDA b : Trim(b) = <<>>)

\* C28: an empty or whitespace-only event block never invokes the callback
\* and does not change the handling of the events that follow it: the
\* callbacks made for the text read so far are those a single read of the
\* same text without its keep-alive blocks makes, and no more than one for
\* each block that is not a keep-alive.
C28_KeepAliveInvisible ==
  mode = "chat" =>
    /\ calls = ChatRead(<<>>, WithoutKeepAlives(SubSeq(wire, 1, delivered))).calls
    /\ Len(calls) <= Len(LiveBlocks)

\* The body began with a keep-alive block, and the chunk event after it has
\* been delivered.
C28_Witness ==
  /\ phase = "ended"
  /\ IsKeepAlive(Head(Split(wire, NLNL)))
  /\ KeepAlivesRead # <<>>
  /\ calls = <<Call(JStr(<<"A">>), "text")>>


(***************************************************************************)
(* Unterminated event text, checked under SpecDecoder.                      *)
(***************************************************************************)

\* The text up to its last blank line: its complete blocks.
CompleteText(text) == Terminated(Front(Split(text, NLNL)))

\* C29: an event is delivered only after its terminating blank line has
\* been read.  The callbacks of the chat decoder, and the result of the
\* one-shot decoder, are those of the complete blocks alone: text still
\* unterminated, when the stream ends too, delivers nothing, and the chat
\* decode does not fail on it.
C29_OnlyTerminatedEvents ==
  /\ mode = "chat" =>
       /\ calls = ChatRead(<<>>, CompleteText(SubSeq(wire, 1, delivered))).calls
       /\ phase \in {"reading", "ended"}
  /\ (mode = "oneshot" /\ phase \in {"returned", "ended"}) =>
       resultData = OneShotWhole(CompleteText(wire))

\* The stream ended while the buffer held a chunk event with data that
\* lacked its blank line; no callback was made for it.
C29_Witness ==
  /\ mode = "chat" /\ phase = "ended"
  /\ ChatRead(buffer, NLNL).calls # <<>>
  /\ calls = <<>>


(***************************************************************************)
(* The refresh of the session list after a send.                            *)
(***************************************************************************)

\* The step is the completion of a send: the stream ended, the stream
\* failed, or the creation of the session failed.
SendCompleted(op) == op \in {"StreamEnds", "StreamFails", "SessionCreationFails"}

\* A session was active when the send began: the send has a session that
\* it did not create.
BeganInSession == send.sessionId # NULL /\ ~send.created

\* C30: after a send completes, successfully or not, a refresh of the
\* session list is issued exactly when a session was already active when
\* the send began; a send that began with no active session issues none.
C30_RefreshOnlyForExistingSession ==
  [][SendCompleted(last'.op) =>
       IF BeganInSession
       THEN Pending \in fetchS' /\ fetchS' \ {Pending} = fetchS \ {Pending}
       ELSE fetchS' = fetchS]_vars

\* A send in the opened session has completed and its refresh is awaiting
\* the store's answer.
C30_Witness ==
  /\ last.op = "StreamEnds"
  /\ BeganInSession
  /\ sessions # <<>>
  /\ Pending \in fetchS


(***************************************************************************)
(* The temporary ids of a send, checked under SpecIds.                      *)
(***************************************************************************)

\* C31: within one send the temporary id given to the assistant placeholder
\* differs from the temporary id given to the user message, whatever the
\* two readings of a clock that does not go back.
C31_TemporaryIdsDistinct ==
  send.pc = "streaming" => send.assistantMessageId # send.userId

\* Both ids were taken from the same reading of the clock, which was not
\* its first.
C31_Witness ==
  /\ last.op = "TakeAssistantId"
  /\ send.pc = "streaming"
  /\ send.userId = TmpId(now)
  /\ now > 0


(***************************************************************************)
(* The first message of a new conversation.                                 *)
(***************************************************************************)

\* The step opens the stream of a send that began with no active session.
OpensFirstStream(call, call2) ==
  call.pc # "streaming" /\ call2.pc = "streaming" /\ call2.hadSession = NULL

\* The empty assistant messages of a list.
EmptyAssistants(msgs) ==
  {i \in DOMAIN msgs : msgs[i].role = "assistant" /\ msgs[i].content = <<>>}

\* C32: for a first message with no active session, the stream is opened
\* only after the remote creation of the session has succeeded, and it
\* carries the id of the created session; when the creation fails, no
\* stream is opened, no placeholder is added, and the active session id
\* (null) and the session list are unchanged.
C32_StreamAfterCreation ==
  [][/\ OpensFirstStream(send, send') =>
          /\ send.pc = "created"
          /\ send.sessionId # NULL /\ send.sessionId < nextId
          /\ send'.sessionId = send.sessionId
          /\ currentSessionId' = send'.sessionId
     /\ last'.op = "SessionCreationFails" =>
          /\ send'.pc = "failed"
          /\ Cardinality(EmptyAssistants(messages')) = Cardinality(EmptyAssistants(messages))
          /\ UNCHANGED <<currentSessionId, sessions>>]_vars

\* The creation of the session failed: the list shows the user message and
\* the failure message, and no session is active.
C32_Witness ==
  /\ last.op = "SessionCreationFails"
  /\ send.pc = "failed"
  /\ currentSessionId = NULL
  /\ Len(messages) = 2
  /\ messages[2].content = FailureText


(***************************************************************************)
(* What the events of a stream change.                                      *)
(***************************************************************************)

\* The callbacks the read of a step made: those of the text the step added
\* to the body, decoded with the buffer the step began with.
ReadCalls(call, call2) ==
  ChatRead(call.buffer, SubSeq(call2.body, Len(call.body) + 1, Len(call2.body))).calls

VizCalls(cs) == SelectSeq(cs, LAMBDA c : c.type = "visualization")
TextCalls(cs) == SelectSeq(cs, LAMBDA c : c.type # "visualization")

RECURSIVE TextOf(_)
TextOf(cs) == IF cs = <<>> THEN <<>> ELSE ToText(Head(cs).payload) \o TextOf(Tail(cs))

\* C33: a visualization event changes only the meta of the placeholder,
\* setting it to the event's payload (the last one when several arrive),
\* and leaves the placeholder's content and every other message as they
\* are; chunk and error events change only the placeholder's content,
\* which they extend with their text.
C33_EventsChangeOnlyTheirField ==
  [][last'.op = "StreamRead" =>
       LET cs == ReadCalls(send, send') IN
       /\ Len(messages') = Len(messages)
       /\ \A i \in DOMAIN messages :
            IF messages[i].id # send.assistantMessageId
            THEN messages'[i] = messages[i]
            ELSE /\ messages'[i].content = messages[i].content \o TextOf(TextCalls(cs))
                 /\ messages'[i].meta =
                      IF VizCalls(cs) = <<>> THEN messages[i].meta
                      ELSE VisualizationMeta(Last(VizCalls(cs)).payload)
                 /\ [messages'[i] EXCEPT !.content = <<>>, !.meta = JUndefined]
                      = [messages[i] EXCEPT !.content = <<>>, !.meta = JUndefined]]_vars

\* A read returned two visualization events: the placeholder holds the
\* payload of the second, its content is still empty, and the user message
\* before it is as it was sent.
C33_Witness ==
  /\ last.op = "StreamRead"
  /\ Len(messages) >= 2
  /\ Last(messages).id = send.assistantMessageId
  /\ Last(messages).meta = VisualizationMeta(JEmptyArray)
  /\ Last(messages).content = <<>>
  /\ messages[Len(messages) - 1].id = send.userId
  /\ messages[Len(messages) - 1].meta = JUndefined


(***************************************************************************)
(* Termination of a send, checked under SpecSettles.                        *)
(***************************************************************************)

\* The send has been accepted and has not settled.
InFlight == send.pc \in {"creating", "created", "streaming"}

\* C34: every accepted send eventually settles, as success or failure, when
\* each remote call and stream read eventually returns; a settled send has
\* cleared the in-flight flag, which is set only while a send is in
\* flight, so that a later send is accepted again.
C34_SendSettles ==
  /\ InFlight ~> (send.pc \in {"ok", "failed"} /\ ~isLoading)
  /\ [](isLoading <=> InFlight)

\* A second send was accepted after the first had settled.
C34_Witness ==
  /\ InFlight /\ isLoading
  /\ ops = 2
  /\ last.op = "HandleSendMessage"
  /\ \E i \in DOMAIN messages : \E j \in DOMAIN messages :
       /\ i < j
       /\ messages[i].role = "user" /\ messages[i].id.k = "tmp"
       /\ messages[j].id = send.userId


(***************************************************************************)
(* Interleavings of loads, sends, renames and deletes.                      *)
(***************************************************************************)

\* C35: a message-load response for a session that is no longer the active
\* one never replaces the local message list.
C35_StaleLoadIgnored ==
  [][(last'.op = "FetchMessagesReturn" /\ last'.id # currentSessionId)
       => messages' = messages]_vars

\* The step applies something of the send to the message list: events of
\* its stream, or its failure.
IsSendStep(op) == op \in {"StreamRead", "StreamFails", "SessionCreationFails"}

\* C36: the streamed events and the failure message of a send are applied
\* only to the message list of the session the send was issued for: when
\* another session, or none, is displayed by then, the send adds or
\* changes no message of the list.
C36_SendStaysInItsSession ==
  [][(IsSendStep(last'.op) /\ currentSessionId # send.sessionId)
       => messages' = messages]_vars

\* C37: when a rename fails remotely, the revert changes only the renamed
\* session's title: the other sessions of the list, added, removed or
\* renamed meanwhile, stay as they are.
C37_RevertTouchesOnlyRenamed ==
  [][last'.op = "RenameFails"
       => Without(sessions', last'.id) = Without(sessions, last'.id)]_vars

\* The delete of the session has been confirmed and has succeeded in the
\* store: the session was created, is no longer stored, and no delete of
\* it is in flight.
DeletedRemotely(id) ==
  id < nextId /\ id \notin Ids(remoteSessions) /\ id \notin deletes

\* C38: once a delete has been confirmed and has succeeded remotely, the
\* deleted session is never in the local session list again.
C38_DeletedStaysDeleted ==
  \A id \in SessionIds : DeletedRemotely(id) => id \notin Ids(sessions)

\* C39: the local session list never holds two entries with the same
\* session id.
C39_NoDuplicateSessions ==
  Cardinality(Ids(sessions)) = Len(sessions)


\* C40: the one-shot path ends the query at an event, and takes the result
\* from it, only when the event declares the type metadata: a run that has
\* returned has observed an event of the declared type metadata.
C40_OnlyDeclaredMetadataEnds ==
  (mode = "oneshot" /\ phase = "returned")
    => \E i \in DOMAIN Observed : IsMetadataEvent(Observed[i])

=============================================================================
